---- MODULE Spec2Model ----
(***************************************************************************)
(* A model of the music downloader's job store (utils/job_manager.py), its *)
(* download orchestrator (downloaders/spotify_handler.py) and the request  *)
(* handler and background tasks of the web interface (app.py).             *)
(*                                                                         *)
(* Threads: thread 0 is the request thread running submit_download; thread *)
(* j (a job id) is the background thread started for job j.  The job map   *)
(* JobManager.jobs and the file jobs.json are shared by all of them and    *)
(* the code takes no lock, so the steps of different threads interleave.   *)
(*                                                                         *)
(* Environment.  The media library (yt-dlp) and the generation backend     *)
(* return or raise: every outcome is a nondeterministic input.  The export *)
(* directory "logs" may be unusable (os.makedirs or open raising).  The    *)
(* working directory holding jobs.json is taken to be writable: save_jobs  *)
(* fails only through the exception Python raises when the job map changes *)
(* size while it is being iterated.                                        *)
(***************************************************************************)
EXTENDS Integers, Sequences, FiniteSets, TLC

\* Bounds of the model.
MaxJobs == 2
MaxTracks == 2
MaxEntries == 2
MaxCount == 3

JobIds == 1..MaxJobs
RequestThread == 0
Threads == {RequestThread} \cup JobIds

\* Optional[str] = None, and the empty list / empty string of a default.
None == <<>>

\* datetime.now().isoformat() at clock reading n: a non-empty string.
IsoFormat(n) == <<n>>

TerminalStatuses == {"completed", "completed_with_errors", "failed"}
Statuses == {"queued", "generating", "downloading"} \cup TerminalStatuses

UrlInputTypes ==
  {"youtube_video", "youtube_playlist", "spotify_track", "spotify_playlist", "spotify_album"}
InputTypes == UrlInputTypes \cup {"search_query", "vibe_description"}

(***************************************************************************)
(* utils/job_manager.py: Job                                               *)
(***************************************************************************)

\* Job(...) followed by __post_init__: None lists become [], an empty
\* created_at becomes the current time.
PostInit(job, now) ==
  [job EXCEPT
     !.error_messages = IF @ = None THEN <<>> ELSE @,
     !.failed_track_details = IF @ = None THEN <<>> ELSE @,
     !.created_at = IF @ = <<>> THEN IsoFormat(now) ELSE @]

\* The Job built by create_job: only the four leading fields are given.
NewJob(job_id, input_type, input_value, now) ==
  PostInit([job_id |-> job_id,
            input_type |-> input_type,
            input_value |-> input_value,
            status |-> "queued",
            total_tracks |-> 0,
            completed_tracks |-> 0,
            failed_tracks |-> 0,
            error_messages |-> None,
            output_directory |-> "",
            created_at |-> <<>>,
            completed_at |-> None,
            failed_track_details |-> None], now)

\* dict.get(key, default)
Get(d, key, default) == IF key \in DOMAIN d THEN d[key] ELSE default

\* A variant of FinalStatus that keys on the failed counter first.
FinalStatusByFailed(completed, failed) ==
  IF failed = 0
    THEN "completed"
    ELSE IF completed > 0 THEN "completed_with_errors" ELSE "failed"

\* Lines 55-61 of update_from_result: the final status from the counters.
FinalStatus(completed, failed) ==
  IF completed > 0
    THEN IF failed = 0 THEN "completed" ELSE "completed_with_errors"
    ELSE "failed"

\* update_from_result, line by line: the three counters (lines 43-45) ...
SetTotal(job, result) == [job EXCEPT !.total_tracks = Get(result, "total", 0)]
SetCompleted(job, result) == [job EXCEPT !.completed_tracks = Get(result, "completed", 0)]
SetFailed(job, result) == [job EXCEPT !.failed_tracks = Get(result, "failed", 0)]

\* ... the failure details, the errors and the output directory (lines
\* 46-52) ...
SetDetails(job, result) ==
  [job EXCEPT
     !.failed_track_details = Get(result, "failed_tracks", <<>>),
     !.error_messages =
        IF Get(result, "errors", <<>>) # <<>> THEN @ \o result.errors ELSE @,
     !.output_directory =
        IF Get(result, "output_dir", "") # "" THEN result.output_dir ELSE @]

\* ... and the status (lines 55-61).
SetStatus(job) ==
  [job EXCEPT !.status = FinalStatus(job.completed_tracks, job.failed_tracks)]

\* update_from_result up to and including the assignment of status.
UpdateFromResultStatus(job, result) ==
  SetStatus(SetDetails(SetFailed(SetCompleted(SetTotal(job, result), result), result), result))

\* Line 63 of update_from_result.
UpdateFromResultCompletedAt(job, now) ==
  [job EXCEPT !.completed_at = IsoFormat(now)]

UpdateFromResult(job, result, now) ==
  UpdateFromResultCompletedAt(UpdateFromResultStatus(job, result), now)

(***************************************************************************)
(* downloaders/spotify_handler.py: MusicDownloader                         *)
(***************************************************************************)

\* The result dict download_url and download_search_query start from.
BaseResult(total, output_dir) ==
  [success |-> FALSE,
   total |-> total,
   completed |-> 0,
   failed |-> 0,
   failed_tracks |-> <<>>,
   output_dir |-> output_dir,
   errors |-> <<>>]

\* What the media library does on one search: the first result is found and
\* downloaded, the search has no entries, its first entry is None, or a call
\* of the library raises.
SearchOutcomes == {"downloaded", "no_results", "invalid_first", "exception"}

FailedTrack(artist, title, error) ==
  [artist |-> artist, title |-> title, error |-> error]

\* A variant of SearchExcept that records no failure detail, as the except
\* branch of download_url does.
SearchExceptNoDetail(result, query) ==
  [result EXCEPT !.failed = 1, !.errors = Append(@, "Search error")]

\* except-branch of download_search_query (lines 291-299).
SearchExcept(result, query) ==
  [result EXCEPT
     !.failed = 1,
     !.failed_tracks = Append(@, FailedTrack("Unknown", query, "exc")),
     !.errors = Append(@, "Search error")]

DownloadSearchQuery(query, outcome) ==
  LET result == BaseResult(1, "downloads")
  IN CASE outcome = "no_results" ->
            [result EXCEPT
               !.failed = 1,
               !.failed_tracks =
                  Append(@, FailedTrack("Unknown", query, "No search results found")),
               !.errors = Append(@, "No results found")]
       [] outcome = "downloaded" ->
            [result EXCEPT !.completed = 1, !.success = TRUE]
       [] outcome = "invalid_first" ->
            [result EXCEPT
               !.failed = 1,
               !.failed_tracks =
                  Append(@, FailedTrack("Unknown", query, "No valid result found"))]
       [] OTHER -> SearchExcept(result, query)

\* A variant of TrackStep without the continue of line 334: a track that
\* lacks a field is counted as failed and searched for all the same.
TrackStepNoContinue(result, track, outcome) ==
  LET artist == Get(track, "artist", "")
      title == Get(track, "title", "")
      counted == IF artist = "" \/ title = ""
                   THEN [result EXCEPT
                           !.failed = @ + 1,
                           !.failed_tracks =
                              Append(@, FailedTrack(artist, title, "Missing artist or title"))]
                   ELSE result
      track_result == DownloadSearchQuery(artist \o " " \o title, outcome)
  IN [counted EXCEPT
        !.completed = @ + track_result.completed,
        !.failed = @ + track_result.failed,
        !.failed_tracks = @ \o track_result.failed_tracks]

\* One pass of the loop of download_track_list (lines 323-343).
TrackStep(result, track, outcome) ==
  LET artist == Get(track, "artist", "")
      title == Get(track, "title", "")
  IN IF artist = "" \/ title = ""
       THEN [result EXCEPT
               !.failed = @ + 1,
               !.failed_tracks =
                  Append(@, FailedTrack(artist, title, "Missing artist or title"))]
       ELSE LET query == artist \o " " \o title
                track_result == DownloadSearchQuery(query, outcome)
            IN [result EXCEPT
                  !.completed = @ + track_result.completed,
                  !.failed = @ + track_result.failed,
                  !.failed_tracks = @ \o track_result.failed_tracks]

RECURSIVE TrackLoop(_, _, _, _)
TrackLoop(result, tracks, outcomes, idx) ==
  IF idx > Len(tracks)
    THEN result
    ELSE TrackLoop(TrackStep(result, tracks[idx], outcomes[idx]), tracks, outcomes, idx + 1)

\* download_track_list(tracks, playlist_name); outcomes[i] is what the media
\* library does on the search for track i (unused for a track that is
\* skipped).
DownloadTrackList(tracks, outcomes) ==
  LET result == TrackLoop(BaseResult(Len(tracks), "downloads/playlist"), tracks, outcomes, 1)
  IN [result EXCEPT !.success = result.completed > 0]

\* except-branch of download_url (lines 226-230).
UrlExcept(result) ==
  [result EXCEPT
     !.errors = Append(@, "Download error"),
     !.failed = result.total - result.completed]

\* What the media library does on a URL: extract_info (or the constructor)
\* raises, extract_info returns nothing, or it returns a single video or a
\* playlist of n non-None entries, and then download returns or raises.
UrlOutcomes ==
  {[info |-> "raise", n |-> 0, download |-> "ok"],
   [info |-> "none", n |-> 0, download |-> "ok"]}
  \cup {[info |-> "single", n |-> 1, download |-> d] : d \in {"ok", "raise"}}
  \cup {[info |-> "entries", n |-> n, download |-> d] :
          n \in 0..MaxEntries, d \in {"ok", "raise"}}

\* The URL as download_url reads it: 'spotify.com' in url.lower(), and
\* '/playlist/' in url.
Urls == [spotify : BOOLEAN, playlist : BOOLEAN]

\* download_url(url).  spotify_tracks is what _get_spotify_playlist_tracks
\* returns (<<>> for None or an empty list), outcomes the searches of
\* download_track_list, yt the media library's behaviour on the URL.
DownloadUrl(url, spotify_tracks, outcomes, yt) ==
  LET result == BaseResult(0, "downloads")
  IN IF url.spotify /\ url.playlist
       THEN IF spotify_tracks = <<>>
              THEN [result EXCEPT
                      !.errors = @ \o <<"Could not extract tracks", "Make sure the playlist is public">>]
              ELSE DownloadTrackList(spotify_tracks, outcomes)
       ELSE IF url.spotify
         THEN [result EXCEPT
                 !.errors = @ \o <<"Spotify URLs require API credentials", "Try searching">>]
         ELSE CASE yt.info = "raise" -> UrlExcept(result)
                [] yt.info = "none" ->
                     [result EXCEPT !.errors = Append(@, "Could not extract info")]
                [] OTHER ->
                     LET found == [result EXCEPT !.total = yt.n]
                     IN IF yt.download = "raise"
                          THEN UrlExcept(found)
                          ELSE [found EXCEPT !.completed = found.total, !.success = TRUE]

\* The result process_download builds for an input type it does not handle
\* (app.py lines 154-157): no counters at all.
UnsupportedResult ==
  [success |-> FALSE, errors |-> <<"Input type not supported yet">>]

(***************************************************************************)
(* utils/job_manager.py: JobManager, the file jobs.json                    *)
(***************************************************************************)

\* JSON values, as json.dump writes them and json.load reads them back.
JNull == [t |-> "null"]
JString(s) == [t |-> "string", v |-> s]
JNumber(n) == [t |-> "number", v |-> n]
JArray(items) == [t |-> "array", v |-> items]
JObject(members) == [t |-> "object", v |-> members]

JStringList(l) == JArray([i \in DOMAIN l |-> JString(l[i])])

\* One failed-track dict: three strings.
JFailedTrack(d) ==
  JObject([artist |-> JString(d.artist), title |-> JString(d.title), error |-> JString(d.error)])

\* Job.to_dict (asdict) as json.dump encodes it: every field of the
\* dataclass, None as null.
ToDict(job) ==
  JObject([job_id |-> JString(job.job_id),
           input_type |-> JString(job.input_type),
           input_value |-> JString(job.input_value),
           status |-> JString(job.status),
           total_tracks |-> JNumber(job.total_tracks),
           completed_tracks |-> JNumber(job.completed_tracks),
           failed_tracks |-> JNumber(job.failed_tracks),
           error_messages |-> JStringList(job.error_messages),
           output_directory |-> JString(job.output_directory),
           created_at |-> JString(job.created_at),
           completed_at |-> IF job.completed_at = None THEN JNull ELSE JString(job.completed_at),
           failed_track_details |->
              JArray([i \in DOMAIN job.failed_track_details |->
                        JFailedTrack(job.failed_track_details[i])])])

\* The text save_jobs dumps: {job_id: job.to_dict()} over the job map.
JsonDumps(jobmap) == JObject([id \in DOMAIN jobmap |-> ToDict(jobmap[id])])

\* json.load of one value.
RECURSIVE JsonLoads(_)
JsonLoads(jv) ==
  CASE jv.t = "null" -> None
    [] jv.t = "array" -> [i \in DOMAIN jv.v |-> JsonLoads(jv.v[i])]
    [] jv.t = "object" -> [k \in DOMAIN jv.v |-> JsonLoads(jv.v[k])]
    [] OTHER -> jv.v

\* A variant of JobFromDict that passes only the four leading fields on.
JobFromDictLeading(data, now) ==
  PostInit([job_id |-> data.job_id,
            input_type |-> data.input_type,
            input_value |-> data.input_value,
            status |-> data.status,
            total_tracks |-> 0,
            completed_tracks |-> 0,
            failed_tracks |-> 0,
            error_messages |-> None,
            output_directory |-> "",
            created_at |-> Get(data, "created_at", <<>>),
            completed_at |-> None,
            failed_track_details |-> None], now)

\* Job(**job_data): the dataclass defaults under the keys the dict gives,
\* then __post_init__.
JobFromDict(data, now) ==
  PostInit([job_id |-> data.job_id,
            input_type |-> data.input_type,
            input_value |-> data.input_value,
            status |-> data.status,
            total_tracks |-> Get(data, "total_tracks", 0),
            completed_tracks |-> Get(data, "completed_tracks", 0),
            failed_tracks |-> Get(data, "failed_tracks", 0),
            error_messages |-> Get(data, "error_messages", None),
            output_directory |-> Get(data, "output_directory", ""),
            created_at |-> Get(data, "created_at", <<>>),
            completed_at |-> Get(data, "completed_at", None),
            failed_track_details |-> Get(data, "failed_track_details", None)], now)

\* The file jobs.json: absent, empty (opened with 'w' and nothing written
\* yet, or a dump that raised), or holding a JSON text.
AbsentFile == [kind |-> "absent", text |-> JNull]
TruncatedFile == [kind |-> "empty", text |-> JNull]
DumpedFile(jobmap) == [kind |-> "json", text |-> JsonDumps(jobmap)]

\* The empty job map of JobManager.__init__.
NoJobs == <<>>

\* A file that is not JSON at all.
GarbageFile == [kind |-> "garbage", text |-> JNull]

\* Job(**job_data) raises TypeError unless job_data is a dict that has the
\* four fields without a default and no key that is not a field.
RequiredKeys == {"job_id", "input_type", "input_value", "status"}
JobKeys ==
  RequiredKeys \cup {"total_tracks", "completed_tracks", "failed_tracks", "error_messages",
                     "output_directory", "created_at", "completed_at", "failed_track_details"}
RecordOk(jv) ==
  /\ jv.t = "object"
  /\ RequiredKeys \subseteq DOMAIN jv.v
  /\ DOMAIN jv.v \subseteq JobKeys

\* The try block of load_jobs (lines 114-117): the exception it ends with,
\* if any, and the jobs stored in self.jobs by then.  The records are taken
\* in the order of the file, which is the order of the ids.
LoadJobsTry(file, now) ==
  CASE file.kind # "json" -> [exception |-> "JSONDecodeError", jobs |-> NoJobs]
    [] file.kind = "json" /\ file.text.t # "object" ->
         [exception |-> "AttributeError", jobs |-> NoJobs]
    [] OTHER ->
         LET members == file.text.v
             loaded == {id \in DOMAIN members :
                          \A k \in DOMAIN members : k <= id => RecordOk(members[k])}
         IN [exception |-> IF loaded = DOMAIN members THEN "none" ELSE "TypeError",
             jobs |-> [id \in loaded |-> JobFromDict(JsonLoads(members[id]), now)]]

\* A variant of Catches for an except clause that names json.JSONDecodeError.
CatchesJsonErrorOnly(exception) == exception = "JSONDecodeError"

\* except Exception (line 118) catches every exception the try block raises.
Catches(exception) ==
  exception \in {"JSONDecodeError", "AttributeError", "TypeError"}

\* JobManager(jobs_file) (lines 69-72): load_jobs into the empty map.  A
\* missing file returns at once; an exception of the try block is caught, or
\* leaves the constructor.
JobManagerInit(file, now) ==
  IF file.kind = "absent"
    THEN [raised |-> FALSE, jobs |-> NoJobs]
    ELSE LET r == LoadJobsTry(file, now)
         IN [raised |-> r.exception # "none" /\ ~Catches(r.exception), jobs |-> r.jobs]

\* load_jobs: the map it leaves in self.jobs.
LoadJobs(file, now) == JobManagerInit(file, now).jobs

\* self.jobs[job.job_id] = job
PutJob(jobmap, job) ==
  [id \in DOMAIN jobmap \cup {job.job_id} |->
     IF id = job.job_id THEN job ELSE jobmap[id]]

\* save_failed_tracks_csv(job).  io is what the file system does: "ok",
\* "makedirs_raises" (os.makedirs, line 129, is outside the try), or
\* "open_fails" (caught at line 138).  Returns whether the call raised and
\* the rows written, if a file was written.
NoCsv == [exists |-> FALSE, rows |-> <<>>]
SaveFailedTracksCsv(job, io) ==
  IF job.failed_track_details = <<>>
    THEN [raised |-> FALSE, file |-> NoCsv]
    ELSE CASE io = "makedirs_raises" -> [raised |-> TRUE, file |-> NoCsv]
           [] io = "open_fails" -> [raised |-> FALSE, file |-> NoCsv]
           [] OTHER -> [raised |-> FALSE,
                        file |-> [exists |-> TRUE, rows |-> job.failed_track_details]]
ExportOutcomes == {"ok", "makedirs_raises", "open_fails"}

(***************************************************************************)
(* State                                                                    *)
(***************************************************************************)
VARIABLES
  jobs,         \* JobManager.jobs: job id -> Job
  jobsFile,     \* the file jobs.json
  clock,        \* the next reading of datetime.now()
  pc,           \* where each thread is
  iter,         \* per thread in save_jobs: len(self.jobs) when its iteration began
  req,          \* the request submit_download is serving
  task,         \* per background thread: its target and arguments
  csv,          \* per job: the export file logs/failed_tracks_<job_id>.csv
  termUpdates,  \* per job: update_job calls of its task that stored a terminal status
  called,       \* per job: the generator and orchestrator entry points its task called
  snap,         \* per thread in save_jobs: the jobs_dict it built, once it has
  lastOp,       \* the last JobManager call of a sequential client
  preRestart,   \* after a restart: the job map as it was when the restart began
  fnIn,         \* the argument of a function applied on its own
  fnOut         \* its result, <<>> before the application

vars == <<jobs, jobsFile, clock, pc, iter, req, task, csv, termUpdates, called, snap,
          lastOp, preRestart, fnIn, fnOut>>

storeVars == <<lastOp, preRestart>>
fnVars == <<fnIn, fnOut>>
threadVars == <<pc, iter, req, task, csv, termUpdates, called, snap>>

NoReq == [job_id |-> 0, target |-> "none", input_type |-> "none",
          url |-> [spotify |-> FALSE, playlist |-> FALSE], tracks |-> <<>>]
NoUrl == [spotify |-> FALSE, playlist |-> FALSE]

\* A track with both fields, as the generator (vibe_handler.py line 120) and
\* the playlist extraction (spotify_handler.py lines 107-108) produce them.
Track == [artist |-> "A", title |-> "T"]
TrackLists == UNION {[1..n -> {Track}] : n \in 1..MaxTracks}
\* The searches the background tasks are run against: the media library
\* returns the download, or raises.  (The other two outcomes of a search
\* differ from a raise in the error text alone; DownloadSpec runs all four.)
TaskSearchOutcomes == {"downloaded", "exception"}
OutcomesFor(tracks) == [1..Len(tracks) -> TaskSearchOutcomes]

\* No jobs_dict: the thread is outside save_jobs, or has not finished line 103.
NoSnapshot == [taken |-> FALSE, jobs |-> NoJobs]

\* The state after construction: app.py lines 18-24, with no jobs.json yet.
Init ==
  /\ jobs = NoJobs
  /\ jobsFile = AbsentFile
  /\ clock = 1
  /\ pc = [t \in Threads |-> IF t = RequestThread THEN "idle" ELSE "unborn"]
  /\ iter = [t \in Threads |-> 0]
  /\ req = NoReq
  /\ task = [j \in JobIds |-> NoReq]
  /\ csv = [j \in JobIds |-> NoCsv]
  /\ termUpdates = [j \in JobIds |-> 0]
  /\ called = [j \in JobIds |-> {}]
  /\ snap = [t \in Threads |-> NoSnapshot]
  /\ lastOp = "init"
  /\ preRestart = NoJobs
  /\ fnIn = <<>>
  /\ fnOut = <<>>

(***************************************************************************)
(* save_jobs, in two steps of the calling thread.  The first is the store   *)
(* into self.jobs made by the caller, open(jobs_file, 'w'), which truncates *)
(* the file, and the start of the iteration over self.jobs.items(); the     *)
(* second is the end of the iteration, json.dump and the close.             *)
(***************************************************************************)

\* update_job(job) or create_job up to the open: the thread t stores job and
\* opens the file; its next position is a dump position.
OpenForSave(t, job, next) ==
  /\ jobs' = PutJob(jobs, job)
  /\ jobsFile' = TruncatedFile
  /\ iter' = [iter EXCEPT ![t] = Cardinality(DOMAIN jobs \cup {job.job_id})]
  /\ pc' = [pc EXCEPT ![t] = next]

\* Where a thread goes when save_jobs returns.
AfterDump(p) ==
  CASE p = "create_dump" -> "set_status"
    [] p = "update_dump" -> "start"
    [] p = "begin_dump" -> "call"
    [] p = "generating_dump" -> "generate"
    [] p = "final_dump" -> "export"
    [] OTHER -> "done"

DumpPcs == {"create_dump", "update_dump", "begin_dump", "generating_dump",
            "final_dump", "genfail_dump", "except_dump"}

\* The comprehension and json.dump complete: the file holds the map as it is.
SaveDump(t) ==
  /\ pc[t] \in DumpPcs
  /\ jobsFile' = DumpedFile(jobs)
  /\ pc' = [pc EXCEPT ![t] = AfterDump(pc[t])]
  /\ iter' = [iter EXCEPT ![t] = 0]
  /\ UNCHANGED <<jobs, clock, req, task, csv, termUpdates, called, snap, storeVars, fnVars>>

\* Another thread's create_job inserted into self.jobs during the iteration:
\* "dictionary changed size during iteration" is raised, caught at line 105,
\* and the file is left as it is.
SaveRaises(t) ==
  /\ pc[t] \in DumpPcs
  /\ Cardinality(DOMAIN jobs) # iter[t]
  /\ pc' = [pc EXCEPT ![t] = AfterDump(pc[t])]
  /\ iter' = [iter EXCEPT ![t] = 0]
  /\ UNCHANGED <<jobs, jobsFile, clock, req, task, csv, termUpdates, called, snap, storeVars, fnVars>>

(***************************************************************************)
(* app.py: submit_download, on the request thread                          *)
(***************************************************************************)

\* The requests submit_download accepts, by what it dispatches: pasted
\* playlist text that parsed into tracks, a vibe description with the
\* backend reachable, or any other classified input.  A URL classified as a
\* YouTube URL may still contain 'spotify.com' or '/playlist/' after its
\* host, which is all download_url looks at.
AcceptedRequests ==
  {[job_id |-> 0, target |-> "process_track_list", input_type |-> "pasted_playlist",
    url |-> NoUrl, tracks |-> tr] : tr \in TrackLists}
  \cup {[job_id |-> 0, target |-> "process_vibe", input_type |-> "vibe_description",
         url |-> NoUrl, tracks |-> <<>>]}
  \cup {[job_id |-> 0, target |-> "process_download", input_type |-> it,
         url |-> u, tracks |-> <<>>] :
          it \in {"youtube_video", "youtube_playlist"}, u \in Urls}
  \cup {[job_id |-> 0, target |-> "process_download", input_type |-> it,
         url |-> NoUrl, tracks |-> <<>>] :
          it \in {"spotify_track", "spotify_playlist", "spotify_album", "search_query"}}

\* A request the handler rejects (lines 39-40 and 47-48 with 400, lines
\* 77-80 with 503) returns before create_job: it changes nothing, and is a
\* stuttering step.

\* uuid.uuid4(): an id no job has.
FreshId == Cardinality(DOMAIN jobs) + 1

\* create_job (lines 53, 85, 104) up to the open of save_jobs.
SubmitCreate ==
  /\ pc[RequestThread] = "idle"
  /\ FreshId \in JobIds
  /\ \E r \in AcceptedRequests :
       /\ req' = [r EXCEPT !.job_id = FreshId]
       /\ OpenForSave(RequestThread,
                      NewJob(FreshId, r.input_type, "input", clock),
                      "create_dump")
  /\ clock' = clock + 1
  /\ UNCHANGED <<task, csv, termUpdates, called, snap, storeVars, fnVars>>

\* The status the handler stores after create_job (lines 54, 86, 105).
SubmitStatus(target) == IF target = "process_vibe" THEN "generating" ELSE "queued"

\* job.status = ...; job_manager.update_job(job) up to the open.
SubmitUpdate ==
  /\ pc[RequestThread] = "set_status"
  /\ OpenForSave(RequestThread,
                 [jobs[req.job_id] EXCEPT !.status = SubmitStatus(req.target)],
                 "update_dump")
  /\ UNCHANGED <<clock, req, task, csv, termUpdates, called, snap, storeVars, fnVars>>

\* thread.start() and the response.
SubmitStart ==
  /\ pc[RequestThread] = "start"
  /\ pc' = [pc EXCEPT ![RequestThread] = "idle", ![req.job_id] = "begin"]
  /\ task' = [task EXCEPT ![req.job_id] = req]
  /\ req' = NoReq
  /\ UNCHANGED <<jobs, jobsFile, clock, iter, csv, termUpdates, called, snap, storeVars, fnVars>>

(***************************************************************************)
(* app.py: process_download, process_vibe, process_track_list, on the       *)
(* background thread of job j.  job is the object held in self.jobs[j].     *)
(***************************************************************************)

\* The status a task stores first (lines 146, 180, 221).
FirstStatus(target) == IF target = "process_vibe" THEN "generating" ELSE "downloading"

\* get_job, the first status and update_job up to the open.
TaskBegin(j) ==
  /\ pc[j] = "begin"
  /\ OpenForSave(j, [jobs[j] EXCEPT !.status = FirstStatus(task[j].target)],
                 IF task[j].target = "process_vibe" THEN "generating_dump" ELSE "begin_dump")
  /\ UNCHANGED <<clock, req, task, csv, termUpdates, called, snap, storeVars, fnVars>>

\* A variant of FailJob that appends the message and leaves the status.
FailJobKeepsStatus(job, message) ==
  [job EXCEPT !.error_messages = Append(@, message)]

\* The status and message of the except branches (lines 167-168, 209-210,
\* 234-235) and of the generation failure (lines 186-187).
FailJob(job, message) ==
  [job EXCEPT !.status = "failed", !.error_messages = Append(@, message)]

\* process_vibe lines 183-189: generate_playlist returned None.
TaskGenerateFails(j) ==
  /\ pc[j] = "generate"
  /\ OpenForSave(j, FailJob(jobs[j], "Failed to generate playlist from vibe"),
                 "genfail_dump")
  /\ termUpdates' = [termUpdates EXCEPT ![j] = @ + 1]
  /\ called' = [called EXCEPT ![j] = @ \cup {"generate_playlist"}]
  /\ task' = [task EXCEPT ![j] = NoReq]
  /\ UNCHANGED <<clock, req, csv, snap, storeVars, fnVars>>

\* process_vibe lines 183-193: generate_playlist returned tracks.
TaskGenerate(j) ==
  /\ pc[j] = "generate"
  /\ \E tr \in TrackLists : task' = [task EXCEPT ![j].tracks = tr]
  /\ OpenForSave(j, [jobs[j] EXCEPT !.status = "downloading"], "begin_dump")
  /\ called' = [called EXCEPT ![j] = @ \cup {"generate_playlist"}]
  /\ UNCHANGED <<clock, req, csv, termUpdates, snap, storeVars, fnVars>>

\* The entry point of the orchestrator a task calls (lines 149-152, 199,
\* 224): none for an input type process_download does not dispatch.
EntryPoint(t) ==
  IF t.target = "process_download"
    THEN IF t.input_type \in {"youtube_video", "youtube_playlist"}
           THEN {"download_url"}
           ELSE IF t.input_type = "search_query" THEN {"download_search_query"} ELSE {}
    ELSE {"download_track_list"}

\* The results the orchestrator can hand to the task of job j.
TaskResults(j) ==
  LET t == task[j]
  IN IF t.target = "process_download"
       THEN IF t.input_type \in {"youtube_video", "youtube_playlist"}
              THEN {DownloadUrl(t.url, <<>>, <<>>, yt) : yt \in UrlOutcomes}
                   \cup UNION {{DownloadUrl(t.url, tr, o, [info |-> "none", n |-> 0, download |-> "ok"]) :
                                  o \in OutcomesFor(tr)} : tr \in TrackLists}
              ELSE IF t.input_type = "search_query"
                     THEN {DownloadSearchQuery("input", o) : o \in TaskSearchOutcomes}
                     ELSE {UnsupportedResult}
       ELSE {DownloadTrackList(t.tracks, o) : o \in OutcomesFor(t.tracks)}

\* The download call and update_from_result up to the status (lines 149-159,
\* 199-201, 224-226).
TaskCall(j) ==
  /\ pc[j] = "call"
  /\ \E result \in TaskResults(j) :
       jobs' = [jobs EXCEPT ![j] = UpdateFromResultStatus(@, result)]
  /\ pc' = [pc EXCEPT ![j] = "completed_at"]
  /\ called' = [called EXCEPT ![j] = @ \cup EntryPoint(task[j])]
  /\ task' = [task EXCEPT ![j] = NoReq]
  /\ UNCHANGED <<jobsFile, clock, iter, req, csv, termUpdates, snap, storeVars, fnVars>>

\* The last line of update_from_result, and update_job up to the open.
TaskFinish(j) ==
  /\ pc[j] = "completed_at"
  /\ OpenForSave(j, UpdateFromResultCompletedAt(jobs[j], clock), "final_dump")
  /\ clock' = clock + 1
  /\ termUpdates' = [termUpdates EXCEPT ![j] = @ + 1]
  /\ UNCHANGED <<req, task, csv, called, snap, storeVars, fnVars>>

\* Lines 162-163: the export, when it returns.
TaskExport(j) ==
  /\ pc[j] = "export"
  /\ IF jobs[j].failed_tracks > 0
       THEN \E io \in ExportOutcomes :
              LET r == SaveFailedTracksCsv(jobs[j], io)
              IN /\ ~r.raised
                 /\ csv' = [csv EXCEPT ![j] = r.file]
       ELSE UNCHANGED csv
  /\ pc' = [pc EXCEPT ![j] = "done"]
  /\ UNCHANGED <<jobs, jobsFile, clock, iter, req, task, termUpdates, called, snap, storeVars, fnVars>>

\* Lines 162-169: the export raises, and the except branch of the task runs
\* up to the open of its update_job.
TaskExportRaises(j) ==
  /\ pc[j] = "export"
  /\ jobs[j].failed_tracks > 0
  /\ \E io \in ExportOutcomes : SaveFailedTracksCsv(jobs[j], io).raised
  /\ OpenForSave(j, FailJob(jobs[j], "exc"), "except_dump")
  /\ termUpdates' = [termUpdates EXCEPT ![j] = @ + 1]
  /\ UNCHANGED <<clock, req, task, csv, called, snap, storeVars, fnVars>>

RequestNext == SubmitCreate
RequestContinue ==
  SaveDump(RequestThread) \/ SaveRaises(RequestThread) \/ SubmitUpdate \/ SubmitStart

TaskNext(j) ==
  \/ TaskBegin(j)
  \/ SaveDump(j)
  \/ SaveRaises(j)
  \/ TaskGenerateFails(j)
  \/ TaskGenerate(j)
  \/ TaskCall(j)
  \/ TaskFinish(j)
  \/ TaskExport(j)
  \/ TaskExportRaises(j)

Next == RequestNext \/ RequestContinue \/ \E j \in JobIds : TaskNext(j)

Spec == Init /\ [][Next]_vars

\* Every started thread keeps running, and a request is served to its end.
FairSpec ==
  /\ Spec
  /\ WF_vars(RequestContinue)
  /\ \A j \in JobIds : WF_vars(TaskNext(j))

(***************************************************************************)
(* The job store driven by one sequential client (cli_test.py,              *)
(* test_phase1.py): whole calls of create_job and update_job, and a restart *)
(* of the process, which builds a new JobManager on the same file.          *)
(***************************************************************************)

\* Bounds of the sequential client: clock readings and error messages.
MaxClock == 4
MaxErrors == 2

\* A variant of SaveJobs that leaves the file as it is, as if the call of
\* save_jobs were missing.
SaveJobsSkipped(file, jobmap) == file

\* save_jobs with no other thread running: the file is opened, the whole map
\* dumped, the file closed.
SaveJobs(file, jobmap) == DumpedFile(jobmap)

\* What a client does to a job before it calls update_job: a new status, a
\* failure with its message, or update_from_result.
ClientResults ==
  {DownloadSearchQuery("input", "downloaded"),
   DownloadTrackList(<<Track, Track>>, <<"downloaded", "no_results">>),
   UnsupportedResult}
ClientUpdates(job, now) ==
  {[job EXCEPT !.status = st] : st \in {"generating", "downloading"}}
  \cup (IF Len(job.error_messages) < MaxErrors THEN {FailJob(job, "exc")} ELSE {})
  \cup (IF job.completed_at = None
          THEN {UpdateFromResult(job, r, now) : r \in ClientResults}
          ELSE {})

StoreInit ==
  /\ Init
  /\ lastOp = "init"

\* create_job(input_type, input_value)
StoreCreateJob ==
  /\ FreshId \in JobIds
  /\ clock < MaxClock
  /\ \E it \in {"search_query", "vibe_description"} :
       jobs' = PutJob(jobs, NewJob(FreshId, it, "input", clock))
  /\ jobsFile' = SaveJobs(jobsFile, jobs')
  /\ clock' = clock + 1
  /\ lastOp' = "create_job"
  /\ preRestart' = NoJobs
  /\ UNCHANGED <<threadVars, fnVars>>

\* update_job(job), job being a job of the map the client has changed.
StoreUpdateJob ==
  /\ clock < MaxClock
  /\ \E id \in DOMAIN jobs : \E job \in ClientUpdates(jobs[id], clock) :
       /\ jobs' = PutJob(jobs, job)
       /\ clock' = IF job.completed_at # jobs[id].completed_at THEN clock + 1 ELSE clock
  /\ jobsFile' = SaveJobs(jobsFile, jobs')
  /\ lastOp' = "update_job"
  /\ preRestart' = NoJobs
  /\ UNCHANGED <<threadVars, fnVars>>

\* JobManager(jobs_file) in a new process: the map is rebuilt by load_jobs.
StoreRestart ==
  /\ preRestart' = jobs
  /\ jobs' = LoadJobs(jobsFile, clock)
  /\ lastOp' = "restart"
  /\ UNCHANGED <<jobsFile, clock, threadVars, fnVars>>

StoreNext == StoreCreateJob \/ StoreUpdateJob \/ StoreRestart

StoreSpec == StoreInit /\ [][StoreNext]_vars

(***************************************************************************)
(* Job.update_from_result applied to a new job, for any result dict.        *)
(***************************************************************************)

\* Result dicts: each of the three counters is absent or in 0..MaxCount.
CounterKeys == {"total", "completed", "failed"}
ResultDicts ==
  {[k \in keys |-> full[k]] :
     keys \in SUBSET CounterKeys, full \in [CounterKeys -> 0..MaxCount]}

UpdateInit ==
  /\ jobs = NoJobs
  /\ jobsFile = AbsentFile
  /\ clock = 1
  /\ pc = [t \in Threads |-> IF t = RequestThread THEN "idle" ELSE "unborn"]
  /\ iter = [t \in Threads |-> 0]
  /\ req = NoReq
  /\ task = [j \in JobIds |-> NoReq]
  /\ csv = [j \in JobIds |-> NoCsv]
  /\ termUpdates = [j \in JobIds |-> 0]
  /\ called = [j \in JobIds |-> {}]
  /\ snap = [t \in Threads |-> NoSnapshot]
  /\ lastOp = "init"
  /\ preRestart = NoJobs
  /\ fnIn \in ResultDicts
  /\ fnOut = <<>>

ApplyUpdateFromResult ==
  /\ fnOut = <<>>
  /\ fnOut' = <<UpdateFromResult(NewJob(1, "search_query", "input", clock), fnIn, clock + 1)>>
  /\ UNCHANGED <<jobs, jobsFile, clock, threadVars, storeVars, fnIn>>

UpdateSpec == UpdateInit /\ [][ApplyUpdateFromResult]_vars

(***************************************************************************)
(* The orchestrator's entry points on every input and every behaviour of    *)
(* the media library, and a new job taking the result in, line by line.     *)
(***************************************************************************)

\* Tracks as download_track_list may be given them: either field empty, or
\* the artist key missing.
AnyTracks == [artist : {"", "A"}, title : {"", "T"}] \cup {[title |-> "T"]}
AnyTrackLists == UNION {[1..n -> AnyTracks] : n \in 0..MaxTracks}

NoOutcome == [info |-> "none", n |-> 0, download |-> "ok"]

DownloadCalls ==
  {[fn |-> "download_url", url |-> u, tracks |-> <<>>, outcomes |-> <<>>, yt |-> yt] :
     u \in Urls, yt \in UrlOutcomes}
  \cup UNION {{[fn |-> "download_url", url |-> [spotify |-> TRUE, playlist |-> TRUE],
                tracks |-> tr, outcomes |-> o, yt |-> NoOutcome] :
                 o \in [1..Len(tr) -> SearchOutcomes]} : tr \in TrackLists}
  \cup {[fn |-> "download_search_query", url |-> NoUrl, tracks |-> <<>>,
         outcomes |-> <<o>>, yt |-> NoOutcome] : o \in SearchOutcomes}
  \cup UNION {{[fn |-> "download_track_list", url |-> NoUrl, tracks |-> tr,
                outcomes |-> o, yt |-> NoOutcome] :
                 o \in [1..Len(tr) -> SearchOutcomes]} : tr \in AnyTrackLists}
  \cup {[fn |-> "unsupported", url |-> NoUrl, tracks |-> <<>>, outcomes |-> <<>>,
         yt |-> NoOutcome]}

\* The result of a call.
CallResult(call) ==
  CASE call.fn = "download_url" ->
         DownloadUrl(call.url, call.tracks, call.outcomes, call.yt)
    [] call.fn = "download_search_query" ->
         DownloadSearchQuery("input", call.outcomes[1])
    [] call.fn = "download_track_list" ->
         DownloadTrackList(call.tracks, call.outcomes)
    [] OTHER -> UnsupportedResult

DownloadInit ==
  /\ jobs = NoJobs
  /\ jobsFile = AbsentFile
  /\ clock = 1
  /\ pc = [t \in Threads |-> IF t = RequestThread THEN "idle" ELSE "unborn"]
  /\ iter = [t \in Threads |-> 0]
  /\ req = NoReq
  /\ task = [j \in JobIds |-> NoReq]
  /\ csv = [j \in JobIds |-> NoCsv]
  /\ termUpdates = [j \in JobIds |-> 0]
  /\ called = [j \in JobIds |-> {}]
  /\ snap = [t \in Threads |-> NoSnapshot]
  /\ lastOp = "init"
  /\ preRestart = NoJobs
  /\ fnIn \in DownloadCalls
  /\ fnOut = <<>>

\* The call returns, and the job is about to be updated from its result.
DownloadReturn ==
  /\ fnOut = <<>>
  /\ fnOut' = [line |-> 43, job |-> NewJob(1, "search_query", "input", clock)]
  /\ UNCHANGED <<jobs, jobsFile, clock, threadVars, storeVars, fnIn>>

\* One line of update_from_result.
UpdateLine(job, result, line) ==
  CASE line = 43 -> SetTotal(job, result)
    [] line = 44 -> SetCompleted(job, result)
    [] line = 45 -> SetFailed(job, result)
    [] line = 46 -> SetStatus(SetDetails(job, result))
    [] OTHER -> UpdateFromResultCompletedAt(job, clock + 1)

DownloadUpdateLine ==
  /\ fnOut # <<>>
  /\ fnOut.line \in 43..47
  /\ fnOut' = [line |-> fnOut.line + 1,
               job |-> UpdateLine(fnOut.job, CallResult(fnIn), fnOut.line)]
  /\ UNCHANGED <<jobs, jobsFile, clock, threadVars, storeVars, fnIn>>

DownloadNext == DownloadReturn \/ DownloadUpdateLine

DownloadSpec == DownloadInit /\ [][DownloadNext]_vars

(***************************************************************************)
(* utils/input_parser.py: detect_input_type.  A text is a sequence of      *)
(* pieces: a piece is a character (" ", "-", ":", "/", "?") or a run of     *)
(* characters that contains none of those and is matched as a whole        *)
(* ("chill", "youtube.com").  The pieces are chosen so that every pattern   *)
(* the code looks for is a sequence of whole pieces.                        *)
(***************************************************************************)

\* Bound of the texts: the words of a plain text.
MaxWords == 6
\* Bound of the texts: the path pieces after the host of a URL.
MaxPath == 2

\* The state of the application at rest, all but the function applied.
AppAtRest ==
  /\ jobs = NoJobs
  /\ jobsFile = AbsentFile
  /\ clock = 1
  /\ pc = [t \in Threads |-> IF t = RequestThread THEN "idle" ELSE "unborn"]
  /\ iter = [t \in Threads |-> 0]
  /\ req = NoReq
  /\ task = [j \in JobIds |-> NoReq]
  /\ csv = [j \in JobIds |-> NoCsv]
  /\ termUpdates = [j \in JobIds |-> 0]
  /\ called = [j \in JobIds |-> {}]
  /\ snap = [t \in Threads |-> NoSnapshot]
  /\ lastOp = "init"
  /\ preRestart = NoJobs

\* str.strip(), str.lower(), `p in s`, s.split(p) and len(s.split()).
Whitespace == {" ", "\n"}
RECURSIVE LStrip(_)
LStrip(s) == IF s # <<>> /\ Head(s) \in Whitespace THEN LStrip(Tail(s)) ELSE s
RECURSIVE RStrip(_)
RStrip(s) ==
  IF s # <<>> /\ s[Len(s)] \in Whitespace THEN RStrip(SubSeq(s, 1, Len(s) - 1)) ELSE s
Strip(s) == RStrip(LStrip(s))

LowerPiece(c) ==
  CASE c = "CHILL" -> "chill"
    [] c = "YOUTU.BE" -> "youtu.be"
    [] c = "Here" -> "here"
    [] c = "Playlist" -> "playlist"
    [] OTHER -> c
Lower(s) == [i \in DOMAIN s |-> LowerPiece(s[i])]

Occurrences(p, s) == {i \in 1..(Len(s) - Len(p) + 1) : SubSeq(s, i, i + Len(p) - 1) = p}
In(p, s) == Occurrences(p, s) # {}
FirstOf(S) == CHOOSE i \in S : \A k \in S : i <= k

RECURSIVE Split(_, _)
Split(s, p) ==
  IF ~In(p, s)
    THEN <<s>>
    ELSE LET i == FirstOf(Occurrences(p, s))
         IN <<SubSeq(s, 1, i - 1)>> \o Split(SubSeq(s, i + Len(p), Len(s)), p)

\* len(text.split()): the runs of pieces between white space.
WordCount(s) ==
  Cardinality({i \in DOMAIN s : s[i] \notin Whitespace /\ (i = 1 \/ s[i - 1] \in Whitespace)})

\* urlparse(text): the scheme is what precedes the first ':' when it starts
\* with a letter and holds scheme characters only; the host is what follows
\* '//' up to the first '/', '?' or '#'.
NotSchemePieces == {" ", ":", "/", "?", "#", "watch?v=abc", "list="}
UrlParse(text) ==
  LET colons == {i \in DOMAIN text : text[i] = ":"}
      i == IF colons = {} THEN 0 ELSE FirstOf(colons)
      has_scheme == /\ i > 1
                    /\ text[1] # "-"
                    /\ \A k \in 1..(i - 1) : text[k] \notin NotSchemePieces
      rest == IF has_scheme THEN SubSeq(text, i + 1, Len(text)) ELSE text
      after == SubSeq(rest, 3, Len(rest))
      stops == {k \in DOMAIN after : after[k] \in {"/", "?", "#"}}
      end == IF stops = {} THEN Len(after) ELSE FirstOf(stops) - 1
  IN [scheme |-> IF has_scheme THEN Lower(SubSeq(text, 1, i - 1)) ELSE <<>>,
      netloc |-> IF Len(rest) >= 2 /\ SubSeq(rest, 1, 2) = <<"/", "/">>
                   THEN SubSeq(after, 1, end)
                   ELSE <<>>]

\* is_url (lines 61-67)
IsUrl(text) ==
  LET result == UrlParse(text)
  IN result.scheme # <<>> /\ result.netloc # <<>>

\* vibe_keywords (lines 79-83)
VibeKeywords ==
  {<<"music", " ", "for">>, <<"playlist">>, <<"vibe">>, <<"mood">>, <<"feeling">>,
   <<"upbeat">>, <<"chill">>, <<"relaxing">>, <<"energetic">>, <<"party">>,
   <<"workout">>, <<"study">>, <<"focus">>, <<"sleep">>, <<"background">>}

\* A variant of LooksLikeSearchQuery that looks for the keywords in the text
\* as typed.
LooksLikeSearchQueryAsTyped(text) ==
  IF \E keyword \in VibeKeywords : In(keyword, text)
    THEN FALSE
    ELSE WordCount(text) <= 5

\* looks_like_search_query (lines 70-94)
LooksLikeSearchQuery(text) ==
  IF \E keyword \in VibeKeywords : In(keyword, Lower(text))
    THEN FALSE
    ELSE WordCount(text) <= 5

\* The separator of "Artist - Song".
Separator == <<" ", "-", " ">>

\* A variant of IsArtistSong that does not count the segments.
IsArtistSongAnyCount(user_input) == In(Separator, user_input)

\* Line 50: ' - ' in user_input and len(user_input.split(' - ')) == 2
IsArtistSong(user_input) ==
  In(Separator, user_input) /\ Len(Split(user_input, Separator)) = 2

\* detect_input_type (lines 9-58)
DetectInputType(text) ==
  LET user_input == Strip(text)
      domain == Lower(UrlParse(user_input).netloc)
      youtube == In(<<"youtube.com">>, domain) \/ In(<<"youtu.be">>, domain)
      spotify == In(<<"spotify.com">>, domain)
      input_type ==
        IF IsUrl(user_input) /\ youtube
          THEN IF In(<<"playlist">>, user_input) \/ In(<<"list=">>, user_input)
                 THEN "youtube_playlist"
                 ELSE "youtube_video"
          ELSE IF IsUrl(user_input) /\ spotify
            THEN CASE In(<<"/", "playlist", "/">>, user_input) -> "spotify_playlist"
                   [] In(<<"/", "album", "/">>, user_input) -> "spotify_album"
                   [] OTHER -> "spotify_track"
            ELSE IF IsArtistSong(user_input)
              THEN "search_query"
              ELSE IF LooksLikeSearchQuery(user_input)
                THEN "search_query"
                ELSE "vibe_description"
  IN [input_type |-> input_type, cleaned_input |-> user_input]

\* The texts the classifier is run on.  Plain texts: words separated by one
\* space, with or without white space around them.
TextWords == {<<"a">>, <<"-">>, <<"chill">>, <<"CHILL">>, <<"playlist">>}
RECURSIVE Join(_)
Join(words) ==
  IF words = <<>> THEN <<>>
  ELSE IF Len(words) = 1 THEN words[1]
  ELSE words[1] \o <<" ">> \o Join(Tail(words))
PlainTexts ==
  LET joined == {Join(ws) : ws \in UNION {[1..n -> TextWords] : n \in 0..MaxWords}}
  IN joined \cup {<<" ">> \o s \o <<" ">> : s \in joined}

\* URLs and near-URLs: with or without scheme and '//', a host or none, and
\* what follows the host.
UrlHeads == {<<"https", ":", "/", "/">>, <<"https", ":">>, <<"/", "/">>, <<>>}
UrlHosts ==
  {<<"youtube.com">>, <<"YOUTU.BE">>, <<"open.", "spotify.com">>, <<"music.example.com">>, <<>>}
UrlPathPieces ==
  {<<"/", "watch?v=abc">>, <<"/", "playlist", "/">>, <<"/", "album", "/">>,
   <<"/", "track", "/">>, <<"?", "list=">>, <<" ", "-", " ", "a">>, <<"/", "chill">>}
RECURSIVE Concat(_)
Concat(ss) == IF ss = <<>> THEN <<>> ELSE Head(ss) \o Concat(Tail(ss))
UrlTexts ==
  {h \o host \o Concat(path) :
     h \in UrlHeads, host \in UrlHosts,
     path \in UNION {[1..n -> UrlPathPieces] : n \in 0..MaxPath}}

Texts == PlainTexts \cup UrlTexts

ClassifyInit ==
  /\ AppAtRest
  /\ fnIn \in Texts
  /\ fnOut = <<>>

ApplyDetectInputType ==
  /\ fnOut = <<>>
  /\ fnOut' = <<DetectInputType(fnIn)>>
  /\ UNCHANGED <<jobs, jobsFile, clock, threadVars, storeVars, fnIn>>

ClassifySpec == ClassifyInit /\ [][ApplyDetectInputType]_vars

(***************************************************************************)
(* MusicDownloader.parse_playlist_text, the playlist-text parser.  Its      *)
(* code is not among the sources; this is the cursor algorithm as it is     *)
(* documented.  A line is the pieces between two "\n".                      *)
(***************************************************************************)

\* Bounds of the texts given to the parser: lines of any shape, and triples
\* laid out.
MaxLines == 4
MaxTriples == 2

\* text.split('\n')
Lines(text) == Split(text, <<"\n">>)

IsBlank(line) == Strip(line) = <<>>

\* A bare duration: D:DD or DD:DD and nothing else on the line.
DurationPieces == {"3:45", "12:34"}
IsDuration(line) == \E d \in DurationPieces : Strip(line) = <<d>>

\* The numbering prefix "N. ": a number with its dot, and the white space
\* after it.
NumberPiece(n) ==
  CASE n = 1 -> "1."
    [] n = 2 -> "2."
    [] n = 3 -> "3."
    [] OTHER -> "9."
NumberPieces == {"1.", "2.", "3.", "9."}
StripNumbering(line) ==
  LET s == Strip(line)
  IN IF s # <<>> /\ Head(s) \in NumberPieces THEN LStrip(Tail(s)) ELSE s

\* Suffix noise such as "- Remastered...": cut from its first occurrence.
SuffixNoise == <<"-", " ", "Remastered">>
StripSuffixNoise(title) ==
  IF In(SuffixNoise, title)
    THEN Strip(SubSeq(title, 1, FirstOf(Occurrences(SuffixNoise, title)) - 1))
    ELSE title

\* A variant of ParseFrom that takes the line after a candidate title as the
\* artist even when it is a bare duration.
RECURSIVE ParseFromAnyArtist(_, _)
ParseFromAnyArtist(lines, i) ==
  IF i > Len(lines)
    THEN <<>>
    ELSE IF IsBlank(lines[i])
      THEN ParseFromAnyArtist(lines, i + 1)
      ELSE IF ~IsDuration(StripNumbering(lines[i])) /\ i + 1 <= Len(lines)
        THEN <<[artist |-> Strip(lines[i + 1]),
                title |-> StripSuffixNoise(StripNumbering(lines[i]))]>>
             \o ParseFromAnyArtist(lines, i + 2)
        ELSE ParseFromAnyArtist(lines, i + 1)

\* The scan with the cursor at line i: blank lines are skipped; a candidate
\* title whose following line exists and is no bare duration gives a track,
\* and the cursor passes both lines and a duration line right after them;
\* otherwise the cursor advances by one line.
RECURSIVE ParseFrom(_, _)
ParseFrom(lines, i) ==
  IF i > Len(lines)
    THEN <<>>
    ELSE IF IsBlank(lines[i])
      THEN ParseFrom(lines, i + 1)
      ELSE IF /\ ~IsDuration(StripNumbering(lines[i]))
              /\ i + 1 <= Len(lines)
              /\ ~IsDuration(lines[i + 1])
        THEN <<[artist |-> Strip(lines[i + 1]),
                title |-> StripSuffixNoise(StripNumbering(lines[i]))]>>
             \o ParseFrom(lines,
                          IF i + 2 <= Len(lines) /\ IsDuration(lines[i + 2])
                            THEN i + 3
                            ELSE i + 2)
        ELSE ParseFrom(lines, i + 1)

ParsePlaylistText(text) == ParseFrom(Lines(text), 1)

\* Texts of any shape: up to MaxLines lines.
LineShapes ==
  {<<>>, <<" ">>, <<"3:45">>, <<"A">>, <<"1.", " ">>, <<"1.", " ", "T">>, <<"1.", " ", "3:45">>,
   <<"1.", " ", "-", " ", "Remastered">>, <<"T", " ", "-", " ", "Remastered">>}
RECURSIVE JoinLines(_)
JoinLines(lines) ==
  IF lines = <<>> THEN <<>>
  ELSE IF Len(lines) = 1 THEN lines[1]
  ELSE lines[1] \o <<"\n">> \o JoinLines(Tail(lines))
AnyPlaylistTexts ==
  {JoinLines(ls) : ls \in UNION {[1..n -> LineShapes] : n \in 0..MaxLines}}

\* Texts built from (title, artist, duration) triples: a numbered title
\* line, an artist line and a duration line for each; a triple with no
\* artist has no artist line.
NoArtist == <<>>
TripleTitles == {<<"T">>, <<"U", " ", "T">>, <<"T", " ", "-", " ", "Remastered">>}
TripleArtists == {<<"A">>, <<"A", " ", "B">>, NoArtist}
Triples == [title : TripleTitles, artist : TripleArtists, duration : DurationPieces]
TripleLines(triple, n) ==
  <<<<NumberPiece(n), " ">> \o triple.title>>
  \o (IF triple.artist = NoArtist THEN <<>> ELSE <<triple.artist>>)
  \o <<<<triple.duration>>>>
RECURSIVE LayoutFrom(_, _)
LayoutFrom(triples, n) ==
  IF n > Len(triples) THEN <<>> ELSE TripleLines(triples[n], n) \o LayoutFrom(triples, n + 1)
Layout(triples) == JoinLines(LayoutFrom(triples, 1))
TripleLists == UNION {[1..n -> Triples] : n \in 0..MaxTriples}

ParserInputs ==
  {[text |-> t, triples |-> <<>>, built |-> FALSE] : t \in AnyPlaylistTexts}
  \cup {[text |-> Layout(ts), triples |-> ts, built |-> TRUE] : ts \in TripleLists}

ParseInit ==
  /\ AppAtRest
  /\ fnIn \in ParserInputs
  /\ fnOut = <<>>

ApplyParsePlaylistText ==
  /\ fnOut = <<>>
  /\ fnOut' = <<ParsePlaylistText(fnIn.text)>>
  /\ UNCHANGED <<jobs, jobsFile, clock, threadVars, storeVars, fnIn>>

ParseSpec == ParseInit /\ [][ApplyParsePlaylistText]_vars

(***************************************************************************)
(* app.py: submit_download from the request as it arrives, the rejections   *)
(* included.  fnIn holds the request data last served.                      *)
(***************************************************************************)

\* The characters of a piece, digit ("d") or not ("x"), for the test of the
\* first three characters at line 43.
PieceChars(c) ==
  CASE c \in NumberPieces -> <<"d", "x">>
    [] c = "3:45" -> <<"d", "x", "d", "d">>
    [] c = "12:34" -> <<"d", "d", "x", "d", "d">>
    [] c \in {" ", "-", ":", "/", "?", "a", "A", "T", "U", "B"} -> <<"x">>
    [] OTHER -> <<"x", "x", "x">>
RECURSIVE LineChars(_)
LineChars(line) ==
  IF line = <<>> THEN <<>> ELSE PieceChars(Head(line)) \o LineChars(Tail(line))

\* Line 43: '\n' in user_input and a digit among the first three characters
\* of its first line.
LooksPasted(user_input) ==
  /\ In(<<"\n">>, user_input)
  /\ LET chars == LineChars(Lines(user_input)[1])
     IN \E k \in DOMAIN chars : k <= 3 /\ chars[k] = "d"

\* The tracks as download_track_list reads them: each field empty or not.
TaskTracks(tracks) ==
  [i \in DOMAIN tracks |->
     [artist |-> IF tracks[i].artist = <<>> THEN "" ELSE "A",
      title |-> IF tracks[i].title = <<>> THEN "" ELSE "T"]]

\* The URL as download_url reads it.
UrlBits(url) ==
  [spotify |-> In(<<"spotify.com">>, Lower(url)),
   playlist |-> In(<<"/", "playlist", "/">>, url)]

Rejected(code) == [code |-> code, request |-> NoReq]
Accepted(target, input_type, url, tracks) ==
  [code |-> 200,
   request |-> [job_id |-> 0, target |-> target, input_type |-> input_type,
                url |-> url, tracks |-> tracks]]

\* A variant of SubmitRoute that does not probe the generation backend.
SubmitRouteNoProbe(data) ==
  LET user_input == Strip(data.input)
      tracks == ParsePlaylistText(user_input)
      detected == DetectInputType(user_input)
  IN IF user_input = <<>>
       THEN Rejected(400)
       ELSE IF LooksPasted(user_input)
         THEN IF tracks = <<>>
                THEN Rejected(400)
                ELSE Accepted("process_track_list", "pasted_playlist", NoUrl, TaskTracks(tracks))
         ELSE IF detected.input_type = "vibe_description"
           THEN Accepted("process_vibe", "vibe_description", NoUrl, <<>>)
           ELSE Accepted("process_download", detected.input_type,
                         UrlBits(detected.cleaned_input), <<>>)

\* submit_download up to its first return or its create_job: the response
\* code of a rejection (lines 39-40, 47-48, 77-80), or the job to create and
\* the thread to start (lines 53-64, 85-96, 104-115).  data.probe is what
\* test_connection returns.
SubmitRoute(data) ==
  LET user_input == Strip(data.input)
      tracks == ParsePlaylistText(user_input)
      detected == DetectInputType(user_input)
  IN IF user_input = <<>>
       THEN Rejected(400)
       ELSE IF LooksPasted(user_input)
         THEN IF tracks = <<>>
                THEN Rejected(400)
                ELSE Accepted("process_track_list", "pasted_playlist", NoUrl, TaskTracks(tracks))
         ELSE IF detected.input_type = "vibe_description"
           THEN IF ~data.probe
                  THEN Rejected(503)
                  ELSE Accepted("process_vibe", "vibe_description", NoUrl, <<>>)
           ELSE Accepted("process_download", detected.input_type,
                         UrlBits(detected.cleaned_input), <<>>)

\* The requests served: no input, white space, pasted text that parses to
\* no track and to one track, a vibe description, a search, two URLs.
SubmitTexts ==
  {<<>>,
   <<" ">>,
   <<"1.", " ", "T", "\n", "3:45">>,
   <<"1.", " ", "T", "\n", "A", "\n", "3:45">>,
   <<"chill">>,
   <<"a", " ", "-", " ", "a">>,
   <<"https", ":", "/", "/", "youtube.com", "/", "watch?v=abc">>,
   <<"https", ":", "/", "/", "open.", "spotify.com", "/", "playlist", "/">>}
SubmitData ==
  {[input |-> t, probe |-> TRUE] : t \in SubmitTexts}
  \cup {[input |-> <<"chill">>, probe |-> FALSE]}

\* One request, up to the response of a rejection or to the open of
\* create_job's save_jobs.
SubmitRequest ==
  /\ pc[RequestThread] = "idle"
  /\ \E data \in SubmitData :
       LET route == SubmitRoute(data)
       IN /\ fnIn' = data
          /\ IF route.code # 200
               THEN UNCHANGED <<jobs, jobsFile, clock, threadVars, storeVars, fnOut>>
               ELSE /\ FreshId \in JobIds
                    /\ req' = [route.request EXCEPT !.job_id = FreshId]
                    /\ OpenForSave(RequestThread,
                                   NewJob(FreshId, route.request.input_type, "input", clock),
                                   "create_dump")
                    /\ clock' = clock + 1
                    /\ UNCHANGED <<task, csv, termUpdates, called, snap, storeVars, fnOut>>

SubmitNext == SubmitRequest \/ RequestContinue \/ \E j \in JobIds : TaskNext(j)

SubmitSpec == Init /\ [][SubmitNext]_vars

(***************************************************************************)
(* downloaders/vibe_handler.py: VibePlaylistGenerator                       *)
(***************************************************************************)

\* Bounds of the generator's inputs: the lines of the backend's answer and
\* the number of tracks asked for.
MaxResponseLines == 3
MaxNumTracks == 2

\* Line 105: the markers of headers, explanations and markdown ("fence" is
\* the piece of three backquotes).
SkipMarkers ==
  {<<"artist", ",", "title">>, <<"here">>, <<"based", " ", "on">>, <<"playlist">>,
   <<"-", "-", "-">>, <<"fence">>}

\* line.lstrip('0123456789.- ')
RECURSIVE LStripNumbering(_)
LStripNumbering(line) ==
  IF line # <<>> /\ Head(line) \in NumberPieces \cup {"-", " "}
    THEN LStripNumbering(Tail(line))
    ELSE line

\* One pass of the loop of _parse_playlist_response (lines 97-124): the
\* track of the line, if it gives one.
ParseLine(raw) ==
  LET line == Strip(raw)
  IN IF line = <<>> \/ (\E skip \in SkipMarkers : In(skip, Lower(line))) \/ ~In(<<",">>, line)
       THEN <<>>
       ELSE LET stripped == LStripNumbering(line)
                first == Split(stripped, <<",">>)[1]
                artist == Strip(first)
                title == Strip(SubSeq(stripped, Len(first) + 2, Len(stripped)))
            IN IF artist # <<>> /\ title # <<>>
                 THEN <<[artist |-> artist, title |-> title]>>
                 ELSE <<>>

\* _parse_playlist_response (lines 90-126)
RECURSIVE ParseLines(_)
ParseLines(lines) ==
  IF lines = <<>> THEN <<>> ELSE ParseLine(Head(lines)) \o ParseLines(Tail(lines))
ParsePlaylistResponse(response_text) == ParseLines(Lines(Strip(response_text)))

\* What the backend does with the request: it times out, cannot be reached,
\* fails otherwise, answers with another status than 200, or answers 200
\* with a text under 'response'.
BackendFailures == {"timeout", "connection_error", "exception", "status_500"}

\* generate_playlist(vibe, num_tracks) (lines 20-88): None, or the tracks.
ReturnNone == [is_none |-> TRUE, tracks |-> <<>>]
GeneratePlaylist(num_tracks, backend) ==
  IF backend.outcome \in BackendFailures
    THEN ReturnNone
    ELSE IF backend.text = <<>>
      THEN ReturnNone
      ELSE LET tracks == ParsePlaylistResponse(backend.text)
           IN IF tracks = <<>> THEN ReturnNone ELSE [is_none |-> FALSE, tracks |-> tracks]

\* The answers of the backend: up to MaxResponseLines lines.
ResponseLines ==
  {<<>>, <<"A", ",", "T">>, <<"1.", " ", "A", ",", " ", "T">>, <<"A">>, <<",", "T">>, <<"A", ",">>,
   <<"Here", " ", "A", ",", "T">>, <<"artist", ",", "title">>, <<"A", ",", "T", ",", "U">>}
ResponseTexts ==
  {JoinLines(ls) : ls \in UNION {[1..n -> ResponseLines] : n \in 0..MaxResponseLines}}
Backends ==
  {[outcome |-> o, text |-> <<>>] : o \in BackendFailures}
  \cup {[outcome |-> "status_200", text |-> t] : t \in ResponseTexts}
GenerateInputs == [num_tracks : 1..MaxNumTracks, backend : Backends]

GenerateInit ==
  /\ AppAtRest
  /\ fnIn \in GenerateInputs
  /\ fnOut = <<>>

ApplyGeneratePlaylist ==
  /\ fnOut = <<>>
  /\ fnOut' = <<GeneratePlaylist(fnIn.num_tracks, fnIn.backend)>>
  /\ UNCHANGED <<jobs, jobsFile, clock, threadVars, storeVars, fnIn>>

GenerateSpec == GenerateInit /\ [][ApplyGeneratePlaylist]_vars

(***************************************************************************)
(* JobManager built on a jobs file left by an earlier run, whatever the     *)
(* file holds, and then used by a sequential client.  fnIn is the file as   *)
(* it was found.                                                            *)
(***************************************************************************)

\* The records of a file: a job as save_jobs writes it, a job written with
\* the four leading fields only, a record that lacks job_id, a record with a
\* key that is no field, and a record that is not an object.
StoredJob(id) == ToDict(NewJob(id, "search_query", "input", 0))
FileRecords(id) ==
  LET good == StoredJob(id)
  IN {good,
      JObject([k \in RequiredKeys |-> good.v[k]]),
      JObject([k \in DOMAIN good.v \ {"job_id"} |-> good.v[k]]),
      JObject([k \in DOMAIN good.v \cup {"bogus"} |-> IF k = "bogus" THEN JNull ELSE good.v[k]]),
      JString("job")}

\* The files: missing, empty, not JSON, a JSON list, and a JSON object of up
\* to MaxJobs records.
StartFiles ==
  {AbsentFile, TruncatedFile, GarbageFile, [kind |-> "json", text |-> JArray(<<>>)]}
  \cup {[kind |-> "json", text |-> JObject(members)] :
          members \in UNION {{m \in [1..n -> UNION {FileRecords(id) : id \in 1..n}] :
                                \A id \in 1..n : m[id] \in FileRecords(id)} :
                             n \in 0..MaxJobs}}

LoadInit ==
  /\ jobs = NoJobs
  /\ fnIn \in StartFiles
  /\ jobsFile = fnIn
  /\ clock = 1
  /\ pc = [t \in Threads |-> IF t = RequestThread THEN "idle" ELSE "unborn"]
  /\ iter = [t \in Threads |-> 0]
  /\ req = NoReq
  /\ task = [j \in JobIds |-> NoReq]
  /\ csv = [j \in JobIds |-> NoCsv]
  /\ termUpdates = [j \in JobIds |-> 0]
  /\ called = [j \in JobIds |-> {}]
  /\ snap = [t \in Threads |-> NoSnapshot]
  /\ lastOp = "start"
  /\ preRestart = NoJobs
  /\ fnOut = <<>>

\* job_manager = JobManager()
LoadConstruct ==
  /\ lastOp = "start"
  /\ LET r == JobManagerInit(jobsFile, clock)
     IN /\ jobs' = r.jobs
        /\ lastOp' = IF r.raised THEN "crashed" ELSE "constructed"
  /\ UNCHANGED <<jobsFile, clock, threadVars, preRestart, fnVars>>

\* The calls of a client that holds the JobManager.
LoadCreateJob == lastOp \notin {"start", "crashed"} /\ StoreCreateJob
LoadUpdateJob == lastOp \notin {"start", "crashed"} /\ StoreUpdateJob

LoadNext == LoadConstruct \/ LoadCreateJob \/ LoadUpdateJob

LoadSpec == LoadInit /\ [][LoadNext]_vars

(***************************************************************************)
(* download_track_list, one pass of its loop at a time.  fnIn is the call   *)
(* (the tracks and what the media library does on each search); fnOut holds *)
(* the index of the next track, the result dict so far and the queries      *)
(* handed to download_search_query so far.                                  *)
(***************************************************************************)

\* A variant of SearchCalls that searches for every track.
SearchCallsForEveryTrack(track) ==
  <<Get(track, "artist", "") \o " " \o Get(track, "title", "")>>

\* The calls of download_search_query one pass makes (lines 324-339): none
\* for a track that lacks a field, one otherwise.
SearchCalls(track) ==
  LET artist == Get(track, "artist", "")
      title == Get(track, "title", "")
  IN IF artist = "" \/ title = "" THEN <<>> ELSE <<artist \o " " \o title>>

TrackListCalls ==
  UNION {{[tracks |-> tr, outcomes |-> o] : o \in [1..Len(tr) -> SearchOutcomes]} :
           tr \in AnyTrackLists}

TrackListInit ==
  /\ AppAtRest
  /\ fnIn \in TrackListCalls
  /\ fnOut = [idx |-> 1,
              result |-> BaseResult(Len(fnIn.tracks), "downloads/playlist"),
              searches |-> <<>>,
              returned |-> FALSE]

\* One pass of the loop (lines 323-343).
TrackListPass ==
  /\ ~fnOut.returned
  /\ fnOut.idx <= Len(fnIn.tracks)
  /\ fnOut' = [fnOut EXCEPT
                 !.idx = @ + 1,
                 !.result = TrackStep(@, fnIn.tracks[fnOut.idx], fnIn.outcomes[fnOut.idx]),
                 !.searches = @ \o SearchCalls(fnIn.tracks[fnOut.idx])]
  /\ UNCHANGED <<jobs, jobsFile, clock, threadVars, storeVars, fnIn>>

\* Lines 345-349: success, and the return.
TrackListReturn ==
  /\ ~fnOut.returned
  /\ fnOut.idx > Len(fnIn.tracks)
  /\ fnOut' = [fnOut EXCEPT
                 !.result = [@ EXCEPT !.success = fnOut.result.completed > 0],
                 !.returned = TRUE]
  /\ UNCHANGED <<jobs, jobsFile, clock, threadVars, storeVars, fnIn>>

TrackListNext == TrackListPass \/ TrackListReturn

TrackListSpec == TrackListInit /\ [][TrackListNext]_vars

(***************************************************************************)
(* save_jobs, line by line.  Spec takes the comprehension of line 103 and   *)
(* json.dump of line 104 as one step; here they are two, so that another    *)
(* thread can run between the moment a thread has built its jobs_dict and   *)
(* the moment it writes it.  Every thread writes through its own file       *)
(* object, from offset 0, and only open() truncates.                        *)
(***************************************************************************)

\* Line 103 completes: the thread holds the map as it is now.
SaveSnapshot(t) ==
  /\ pc[t] \in DumpPcs
  /\ ~snap[t].taken
  /\ snap' = [snap EXCEPT ![t] = [taken |-> TRUE, jobs |-> jobs]]
  /\ UNCHANGED <<jobs, jobsFile, clock, pc, iter, req, task, csv, termUpdates, called,
                 storeVars, fnVars>>

\* Line 103 raises (see SaveRaises): only while the iteration is under way.
SaveSnapshotRaises(t) ==
  /\ ~snap[t].taken
  /\ SaveRaises(t)

\* What the file holds after text is written from offset 0 and the file
\* closed: the text, when the file was empty or held the same text; when
\* another thread has written since this one opened the file, the text if
\* it is at least as long as what the file held, and otherwise the text
\* followed by the tail of what the file held, which is no JSON document.
WriteOver(file, text) ==
  IF file.kind \in {"json", "garbage"} /\ file # text
    THEN {text, GarbageFile}
    ELSE {text}

\* Line 104 and the close: the thread writes the jobs_dict it built.
SaveWrite(t) ==
  /\ pc[t] \in DumpPcs
  /\ snap[t].taken
  /\ jobsFile' \in WriteOver(jobsFile, DumpedFile(snap[t].jobs))
  /\ pc' = [pc EXCEPT ![t] = AfterDump(pc[t])]
  /\ iter' = [iter EXCEPT ![t] = 0]
  /\ snap' = [snap EXCEPT ![t] = NoSnapshot]
  /\ UNCHANGED <<jobs, clock, req, task, csv, termUpdates, called, storeVars, fnVars>>

SaveSteps(t) == SaveSnapshot(t) \/ SaveSnapshotRaises(t) \/ SaveWrite(t)

FileRequestNext == SubmitCreate \/ SubmitUpdate \/ SubmitStart \/ SaveSteps(RequestThread)

FileTaskNext(j) ==
  \/ TaskBegin(j)
  \/ SaveSteps(j)
  \/ TaskGenerateFails(j)
  \/ TaskGenerate(j)
  \/ TaskCall(j)
  \/ TaskFinish(j)
  \/ TaskExport(j)
  \/ TaskExportRaises(j)

FileNext == FileRequestNext \/ \E j \in JobIds : FileTaskNext(j)

FileSpec == Init /\ [][FileNext]_vars

(***************************************************************************)
(* Properties                                                               *)
(***************************************************************************)

Terminal(job) == job.status \in TerminalStatuses

\* C1: a job's status only moves forward: a terminal status is never
\* replaced by a different status, and a downloading job never returns to
\* generating or queued.
C1_StatusOnlyMovesForward ==
  [][\A j \in DOMAIN jobs :
       /\ Terminal(jobs[j]) => jobs'[j].status = jobs[j].status
       /\ jobs[j].status = "downloading" => jobs'[j].status \notin {"generating", "queued"}]_vars

\* C2: under fair scheduling every job of the map eventually has a finished
\* task, a terminal status, and an update_job call that stored it.
C2_EveryJobTerminates ==
  \A j \in JobIds :
    (j \in DOMAIN jobs) ~>
      (j \in DOMAIN jobs /\ pc[j] = "done" /\ Terminal(jobs[j]) /\ termUpdates[j] >= 1)

C2_Witness ==
  \E j \in DOMAIN jobs :
    pc[j] = "done" /\ jobs[j].status = "completed_with_errors" /\ termUpdates[j] = 1

\* C3: a task body performs exactly one update_job call that stores a
\* terminal status: never two, and one once it has finished.
C3_ExactlyOneTerminalUpdate ==
  \A j \in JobIds :
    /\ termUpdates[j] <= 1
    /\ pc[j] = "done" => termUpdates[j] = 1

\* C4: update_from_result sets completed iff completed > 0 and failed = 0,
\* completed_with_errors iff completed > 0 and failed > 0, and failed iff
\* completed = 0, a missing counter counting as 0.
C4_StatusFromCounts ==
  fnOut # <<>> =>
    LET completed == Get(fnIn, "completed", 0)
        failed == Get(fnIn, "failed", 0)
        status == fnOut[1].status
    IN /\ status = "completed" <=> (completed > 0 /\ failed = 0)
       /\ status = "completed_with_errors" <=> (completed > 0 /\ failed > 0)
       /\ status = "failed" <=> completed = 0

C4_Witness ==
  /\ fnOut # <<>>
  /\ DOMAIN fnIn = CounterKeys
  /\ fnIn.completed = 0 /\ fnIn.failed = 3 /\ fnIn.total = 3
  /\ fnOut[1].status = "failed"

\* C5: no two threads are inside save_jobs together, and the job map does
\* not change size while a save_jobs iterates it.
C5_SaveJobsSerialized ==
  /\ Cardinality({t \in Threads : pc[t] \in DumpPcs}) <= 1
  /\ \A t \in Threads : pc[t] \in DumpPcs => iter[t] = Cardinality(DOMAIN jobs)

\* The file read back equals the job map, entry for entry and field for
\* field.
JobFields ==
  {"job_id", "input_type", "input_value", "status", "total_tracks", "completed_tracks",
   "failed_tracks", "error_messages", "output_directory", "created_at", "completed_at",
   "failed_track_details"}
FileHolds(file, jobmap) ==
  /\ file.kind = "json"
  /\ LET jobs_dict == JsonLoads(file.text)
     IN /\ DOMAIN jobs_dict = DOMAIN jobmap
        /\ \A id \in DOMAIN jobmap :
             /\ DOMAIN jobs_dict[id] = JobFields
             /\ \A f \in JobFields : jobs_dict[id][f] = jobmap[id][f]

C8_CountersWithinTotal ==
  fnOut # <<>> =>
    LET job == fnOut.job
    IN /\ job.total_tracks >= 0
       /\ job.completed_tracks >= 0
       /\ job.failed_tracks >= 0
       /\ job.completed_tracks + job.failed_tracks <= job.total_tracks

C8_Witness ==
  /\ fnOut # <<>>
  /\ fnOut.line = 48
  /\ fnIn.fn = "download_url"
  /\ fnIn.yt.download = "raise"
  /\ fnOut.job.failed_tracks = 2

\* C9: completed_at is set exactly when the status is terminal, and is never
\* changed once set.
C9_CompletedAtIffTerminal ==
  /\ [](\A j \in DOMAIN jobs : jobs[j].completed_at # None <=> Terminal(jobs[j]))
  /\ [][\A j \in DOMAIN jobs :
          jobs[j].completed_at # None => jobs'[j].completed_at = jobs[j].completed_at]_vars

\* C10: once a task has finished, the export file of its job exists iff the
\* job's failed_tracks is positive, and then has that many rows.
C10_ExportMatchesFailed ==
  \A j \in JobIds :
    pc[j] = "done" =>
      /\ csv[j].exists <=> jobs[j].failed_tracks > 0
      /\ csv[j].exists => Len(csv[j].rows) = jobs[j].failed_tracks

\* C11: a text that is a URL, with a scheme and a host, is classified as one
\* of the five URL categories, whatever its host.
C11_UrlNeverSearchOrVibe ==
  (fnOut # <<>> /\ IsUrl(Strip(fnIn))) => fnOut[1].input_type \in UrlInputTypes

\* The classification of lines 53-58: a mood keyword in the lower-cased text
\* gives vibe_description, else at most 5 words give search_query, else
\* vibe_description.
ByKeywordsAndLength(s) ==
  IF \E keyword \in VibeKeywords : In(keyword, Lower(s))
    THEN "vibe_description"
    ELSE IF WordCount(s) <= 5 THEN "search_query" ELSE "vibe_description"

\* The separators of a text, counted as str.count counts them.
SeparatorCount(s) == Len(Split(s, Separator)) - 1

\* C12: a text that is not a URL and holds exactly one separator between two
\* non-empty segments is a search_query, mood keyword or not; a text with
\* two or more separators is classified by keywords and length instead.
C12_OneSeparatorIsSearchQuery ==
  fnOut # <<>> =>
    LET s == Strip(fnIn)
        segments == Split(s, Separator)
    IN ~IsUrl(s) =>
         /\ (Len(segments) = 2 /\ segments[1] # <<>> /\ segments[2] # <<>>)
              => fnOut[1].input_type = "search_query"
         /\ Len(segments) >= 3 => fnOut[1].input_type = ByKeywordsAndLength(s)

C12_Witness ==
  /\ fnOut # <<>>
  /\ fnIn = <<"chill", " ", "-", " ", "a">>
  /\ fnOut[1].input_type = "search_query"

\* A URL of a host the classifier knows.
RecognisedUrl(s) ==
  LET domain == Lower(UrlParse(s).netloc)
  IN /\ IsUrl(s)
     /\ \E host \in {"youtube.com", "youtu.be", "spotify.com"} : In(<<host>>, domain)

\* C13: a text that is neither a recognised URL nor a single-separator text
\* is classified by keywords and length, and every text gets one of the
\* seven categories.
C13_KeywordsThenLength ==
  fnOut # <<>> =>
    LET s == Strip(fnIn)
    IN /\ fnOut[1].input_type \in InputTypes
       /\ (~RecognisedUrl(s) /\ SeparatorCount(s) # 1)
            => fnOut[1].input_type = ByKeywordsAndLength(s)

C13_Witness ==
  /\ fnOut # <<>>
  /\ fnIn = <<"a", " ", "a", " ", "a", " ", "CHILL", " ", "a">>
  /\ fnOut[1].input_type = "vibe_description"

\* C17: the parser never returns a track with an empty artist or an empty
\* title.
C17_NoEmptyArtistOrTitle ==
  fnOut # <<>> =>
    \A i \in DOMAIN fnOut[1] : fnOut[1][i].artist # <<>> /\ fnOut[1][i].title # <<>>

\* The tracks of the triples that have an artist, in order.
RECURSIVE TracksOf(_)
TracksOf(triples) ==
  IF triples = <<>>
    THEN <<>>
    ELSE (IF Head(triples).artist = NoArtist
            THEN <<>>
            ELSE <<[artist |-> Head(triples).artist, title |-> Head(triples).title]>>)
         \o TracksOf(Tail(triples))

\* C18 as stated: the text laid out from any triples parses back into the
\* tracks of the triples, in order, a triple with no artist line giving
\* none.
C18_RoundTripAnyTitle ==
  (fnOut # <<>> /\ fnIn.built) => fnOut[1] = TracksOf(fnIn.triples)

\* C18 as amended: the same for triples whose titles carry no suffix noise.
C18_RoundTripPlainTitles ==
  (/\ fnOut # <<>>
   /\ fnIn.built
   /\ \A i \in DOMAIN fnIn.triples : ~In(SuffixNoise, fnIn.triples[i].title))
    => fnOut[1] = TracksOf(fnIn.triples)

C18_Witness ==
  /\ fnOut # <<>>
  /\ fnIn.built
  /\ Len(fnIn.triples) = 2
  /\ fnIn.triples[1].artist = NoArtist
  /\ fnIn.triples[2].title = <<"U", " ", "T">>
  /\ fnOut[1] = <<[artist |-> <<"A", " ", "B">>, title |-> <<"U", " ", "T">>]>>

\* The requests C14 is about: no input, pasted playlist text that parses to
\* no track, a vibe description while the probe of the backend fails.
MustReject(data) ==
  LET user_input == Strip(data.input)
  IN \/ user_input = <<>>
     \/ LooksPasted(user_input) /\ ParsePlaylistText(user_input) = <<>>
     \/ /\ ~LooksPasted(user_input)
        /\ DetectInputType(user_input).input_type = "vibe_description"
        /\ ~data.probe

\* C14: serving a request that is rejected leaves the job map and the file
\* as they are and starts no background thread.
C14_RejectedCreatesNoJob ==
  [][(SubmitRequest /\ MustReject(fnIn'))
       => /\ jobs' = jobs
          /\ jobsFile' = jobsFile
          /\ pc' = pc
          /\ task' = task]_vars

C14_Witness ==
  /\ DOMAIN fnIn = {"input", "probe"}
  /\ fnIn.input = <<"chill">>
  /\ ~fnIn.probe
  /\ Cardinality(DOMAIN jobs) = 1
  /\ jobsFile.kind = "json"

\* C15: a task that has stored a terminal status has called the generator
\* or an entry point of the orchestrator, and the task of a job whose input
\* is a Spotify URL has called download_url.
C15_TaskCallsOrchestrator ==
  \A j \in DOMAIN jobs :
    termUpdates[j] >= 1 =>
      /\ called[j] # {}
      /\ jobs[j].input_type \in {"spotify_playlist", "spotify_album", "spotify_track"}
           => "download_url" \in called[j]

\* C16: generate_playlist returns at most num_tracks tracks, each with an
\* artist and a title, and returns None, never an empty list, when the
\* backend fails or no line of its answer parses.
C16_AtMostNTracks ==
  fnOut # <<>> =>
    LET result == fnOut[1]
    IN /\ Len(result.tracks) <= fnIn.num_tracks
       /\ \A i \in DOMAIN result.tracks :
            result.tracks[i].artist # <<>> /\ result.tracks[i].title # <<>>
       /\ ~result.is_none => result.tracks # <<>>
       /\ fnIn.backend.outcome \in BackendFailures => result.is_none

\* C19: the construction of the JobManager never raises, whatever the jobs
\* file holds, and after each create_job and update_job that follows the
\* file holds the job map.
C19_LoadJobsNeverRaises ==
  /\ lastOp # "crashed"
  /\ lastOp \in {"create_job", "update_job"} => FileHolds(jobsFile, jobs)

C19_Witness ==
  /\ lastOp = "update_job"
  /\ fnIn.kind = "json"
  /\ fnIn.text.t = "object"
  /\ DOMAIN fnIn.text.v = {1, 2}
  /\ RecordOk(fnIn.text.v[1])
  /\ ~RecordOk(fnIn.text.v[2])
  /\ DOMAIN jobs = {1, 2}

\* The status changes of the lifecycle: queued to generating for a vibe
\* description, queued or generating to downloading, downloading to
\* completed or completed_with_errors, and any non-terminal status to failed.
LifecycleStep(job, status) ==
  \/ job.status = "queued" /\ status = "generating" /\ job.input_type = "vibe_description"
  \/ job.status \in {"queued", "generating"} /\ status = "downloading"
  \/ job.status = "downloading" /\ status \in {"completed", "completed_with_errors"}
  \/ ~Terminal(job) /\ status = "failed"

\* C20: a job is created queued, and every change of its status is a step
\* of the lifecycle.
C20_StatusFollowsLifecycle ==
  [][\A j \in DOMAIN jobs' :
       IF j \in DOMAIN jobs
         THEN jobs'[j].status # jobs[j].status => LifecycleStep(jobs[j], jobs'[j].status)
         ELSE jobs'[j].status = "queued"]_vars

\* A track that lacks its artist or its title.
LacksField(track) == Get(track, "artist", "") = "" \/ Get(track, "title", "") = ""

\* C21: the passes take the tracks in list order; a pass over a track that
\* lacks a field adds one to failed and one failure detail, changes nothing
\* else and makes no search; a pass over any other track makes exactly one
\* search, whatever the searches before it did.
C21_OneSearchPerTrack ==
  [][TrackListPass =>
       LET track == fnIn.tracks[fnOut.idx]
           before == fnOut.result
           after == fnOut'.result
       IN /\ fnOut'.idx = fnOut.idx + 1
          /\ IF LacksField(track)
               THEN /\ fnOut'.searches = fnOut.searches
                    /\ after.failed = before.failed + 1
                    /\ Len(after.failed_tracks) = Len(before.failed_tracks) + 1
                    /\ after.failed_tracks[Len(after.failed_tracks)].error = "Missing artist or title"
                    /\ after.completed = before.completed
               ELSE /\ Len(fnOut'.searches) = Len(fnOut.searches) + 1
                    /\ fnOut'.searches[Len(fnOut'.searches)] = track.artist \o " " \o track.title]_vars

C21_Witness ==
  /\ fnOut.returned
  /\ Len(fnIn.tracks) = 2
  /\ LacksField(fnIn.tracks[1])
  /\ ~LacksField(fnIn.tracks[2])
  /\ fnIn.outcomes[2] = "exception"
  /\ Len(fnOut.searches) = 1
  /\ fnOut.result.failed = 2

\* C22: the summary download_track_list returns has completed + failed =
\* total = the number of tracks, as many failure details as failed, and
\* success iff completed > 0.
C22_AccountingIsExact ==
  fnOut.returned =>
    LET result == fnOut.result
    IN /\ result.total = Len(fnIn.tracks)
       /\ result.completed + result.failed = result.total
       /\ Len(result.failed_tracks) = result.failed
       /\ result.success <=> result.completed > 0

C22_Witness ==
  /\ fnOut.returned
  /\ Len(fnIn.tracks) = 2
  /\ fnIn.outcomes = <<"downloaded", "invalid_first">>
  /\ \A i \in 1..2 : ~LacksField(fnIn.tracks[i])
  /\ fnOut.result.completed = 1
  /\ fnOut.result.failed = 1

\* Every background task has finished, no request is in progress, and at
\* least one job was submitted.
Quiescent ==
  /\ pc[RequestThread] = "idle"
  /\ \A j \in JobIds : pc[j] \in {"unborn", "done"}
  /\ jobs # NoJobs

\* C23: once every background task has finished and no request is in
\* progress, the jobs file can be read and holds every job of the in-memory
\* map with its final status and counters.
C23_FileHoldsMapAtRest == Quiescent => FileHolds(jobsFile, jobs)

====
